---- MODULE Spec2Model ----
(***************************************************************************)
(* A model of the chart-of-accounts connector: the reconciler              *)
(* (src/src/compare.py), the QuickBooks gateway (src/src/qb_gateway.py)    *)
(* and the orchestration of one run (src/src/runner.py).                   *)
(***************************************************************************)
EXTENDS Integers, Sequences, FiniteSets, TLC

VARIABLES
    excel_terms,    \* compare_account_types: first argument
    qb_terms,       \* compare_account_types: second argument
    report,         \* the ComparisonReport returned, NoReport before the call
    cmp_pc,         \* "input" before the call, "done" after it, "idle" when unused
    qb_store,       \* the AccountRet records the QuickBooks company file holds
    gw_op,          \* the gateway function called last, "none" before any call
    gw_args,        \* the terms passed to it
    gw_result,      \* what the call returned or raised
    gw_log,         \* what the call did to the connection, the session and the file
    gw_calls,       \* the gateway calls made so far
    build,          \* the side of the merge conflict of qb_gateway.py that is built
    win32com,       \* whether the import of win32com.client succeeded
    run_pc,         \* run_accounts: the step to take next
    report_payload, \* run_accounts: report_payload
    excel_accounts, \* run_accounts: excel_accounts
    qb_accounts,    \* run_accounts: qb_accounts
    comparison,     \* run_accounts: comparison
    run_steps,      \* the steps of the run taken so far, in order
    run_raised,     \* the collaborator call of the run that raised, None if none did
    gateway_failed, \* the gateway operation of the run that failed, None if none did
    written,        \* the payload write_report wrote, None before
    workbook,       \* extract_account: the workbook file at workbook_path
    xl_result,      \* what extract_account returned or raised, None before
    xl_pc,          \* "input" before the importer's call, "done" after it
    argv,           \* main: the command line after the program name
    cli_pc,         \* main: "start", "running" inside the run, "exited"
    exit_code,      \* the exit status of the process in a tuple, <<>> while it runs
    stdout          \* the lines main printed

cmp_vars == <<excel_terms, qb_terms, report, cmp_pc>>

gw_vars == <<qb_store, gw_op, gw_args, gw_result, gw_log, gw_calls, build,
            win32com>>

run_vars == <<run_pc, report_payload, excel_accounts, qb_accounts, comparison,
              run_steps, run_raised, gateway_failed, written>>

xl_vars == <<workbook, xl_result, xl_pc>>

cli_vars == <<argv, cli_pc, exit_code, stdout>>

vars == <<excel_terms, qb_terms, report, cmp_pc,
          qb_store, gw_op, gw_args, gw_result, gw_log, gw_calls, build, win32com,
          run_pc, report_payload, excel_accounts, qb_accounts, comparison,
          run_steps, run_raised, gateway_failed, written,
          workbook, xl_result, xl_pc, argv, cli_pc, exit_code, stdout>>

(***************************************************************************)
(* Bounds of the model.                                                    *)
(***************************************************************************)
\* The two inputs of one comparison hold at most this many records together.
MaxRecords == 3
\* A batch passed to add_accounts_batch holds at most this many records.
MaxBatch == 2
\* The gateway is called at most this many times in one behaviour.
MaxCalls == 1
\* The importer yields at most this many records in one run.
MaxExcel == 2
\* The company file holds at most this many accounts when a run starts.
MaxStore == 1
\* The worksheet holds at most this many rows below its header row.
MaxRows == 2
\* Each input of a comparison of accounts with one number holds at most this
\* many records.
MaxPerSide == 2

(***************************************************************************)
(* models.py: Account, Conflict, ComparisonReport.                         *)
(***************************************************************************)
\* Identifiers are strings, modelled as tuples of characters.
CmpIds == {<<"1">>, <<"2">>}
AccountTypes == {"ASSET", "EXPENSE"}
Names == {"Expense", "Expenses"}
Numbers == {"1000", "2000"}

Account(AccountType, number, name, id, source) ==
    [AccountType |-> AccountType, number |-> number, name |-> name,
     id |-> id, source |-> source]

Conflict(AccountType, id, excel_name, qb_name, reason) ==
    [AccountType |-> AccountType, id |-> id, excel_name |-> excel_name,
     qb_name |-> qb_name, reason |-> reason]

ComparisonReport(excel_only, qb_only, conflicts) ==
    [excel_only |-> excel_only, qb_only |-> qb_only, conflicts |-> conflicts]

NoReport == [none |-> TRUE]

AccountsOf(source) ==
    {Account(t, nb, n, i, source) :
        t \in AccountTypes, nb \in Numbers, n \in Names, i \in CmpIds}

Range(s) == {s[i] : i \in DOMAIN s}

(***************************************************************************)
(* A Python dict: the items in insertion order.  Assigning to a key that   *)
(* is present replaces its value and keeps its place.                      *)
(***************************************************************************)
Keys(d) == {d[i].key : i \in DOMAIN d}

Lookup(d, k) == d[CHOOSE i \in DOMAIN d : d[i].key = k].val

\* A dict that keeps the first value assigned to a key (first-write-wins).
DictPutKeepFirst(d, k, v) ==
    IF k \in Keys(d) THEN d ELSE Append(d, [key |-> k, val |-> v])

DictPut(d, k, v) ==
    IF k \in Keys(d)
    THEN [i \in DOMAIN d |-> IF d[i].key = k THEN [key |-> k, val |-> v] ELSE d[i]]
    ELSE Append(d, [key |-> k, val |-> v])

(***************************************************************************)
(* compare.py: compare_account_types.                                      *)
(***************************************************************************)
\* The key of the two lookup tables: {term.AccountType: term for term in ...}.
TermKey(term) == term.AccountType

RECURSIVE DictOf(_)
DictOf(terms) ==
    IF terms = <<>> THEN <<>>
    ELSE LET n == Len(terms)
         IN DictPut(DictOf(SubSeq(terms, 1, n - 1)), TermKey(terms[n]), terms[n])

\* [term for atype, term in d.items() if atype not in other]
OnlyIn(d, other) ==
    LET kept == SelectSeq(d, LAMBDA item : item.key \notin Keys(other))
    IN [i \in DOMAIN kept |-> kept[i].val]

\* The orders in which iterating over a Python set may yield its elements.
SetOrders(S) ==
    {o \in [1..Cardinality(S) -> S] : \A i, j \in DOMAIN o : i # j => o[i] # o[j]}

\* The fields the loop compares: excel_name != qb_name.
Differ(e, q) == e.name # q.name

\* The Conflict the loop appends for a key whose two records differ.
ConflictFor(atype, excel_dict, qb_dict) ==
    Conflict(atype, Lookup(excel_dict, atype).id, Lookup(excel_dict, atype).name,
             Lookup(qb_dict, atype).name, "name_mismatch")

\* The loop over the keys' intersection, in the order the set yields them.
ConflictsIn(order, excel_dict, qb_dict) ==
    LET hit == SelectSeq(order,
                   LAMBDA k : Differ(Lookup(excel_dict, k), Lookup(qb_dict, k)))
    IN [i \in DOMAIN hit |-> ConflictFor(hit[i], excel_dict, qb_dict)]

\* The reports compare_account_types may return on the two inputs.
CompareResults(excel, qb) ==
    LET excel_dict == DictOf(excel)
        qb_dict == DictOf(qb)
    IN {ComparisonReport(OnlyIn(excel_dict, qb_dict), OnlyIn(qb_dict, excel_dict),
                         ConflictsIn(order, excel_dict, qb_dict)) :
            order \in SetOrders(Keys(excel_dict) \cap Keys(qb_dict))}

(***************************************************************************)
(* Python's str and int on identifiers.  A string is a tuple of            *)
(* characters.                                                             *)
(***************************************************************************)
DigitChars == <<"0", "1", "2", "3", "4", "5", "6", "7", "8", "9">>

IsDigit(c) == \E i \in DOMAIN DigitChars : DigitChars[i] = c

DigitVal(c) == (CHOOSE i \in DOMAIN DigitChars : DigitChars[i] = c) - 1

\* str.strip(): leading and trailing blanks removed.
RECURSIVE Strip(_)
Strip(s) ==
    IF s = <<>> THEN s
    ELSE IF s[1] = " " THEN Strip(Tail(s))
    ELSE IF s[Len(s)] = " " THEN Strip(SubSeq(s, 1, Len(s) - 1))
    ELSE s

\* The digits of an integer literal, when int(s) accepts s: blanks around it
\* and one sign before it are allowed.
Unsigned(s) ==
    LET t == Strip(s)
    IN IF t # <<>> /\ t[1] \in {"+", "-"} THEN Tail(t) ELSE t

\* int(s) does not raise ValueError.
IsIntLiteral(s) ==
    /\ Unsigned(s) # <<>>
    /\ \A i \in DOMAIN Unsigned(s) : IsDigit(Unsigned(s)[i])

RECURSIVE DigitsValue(_)
DigitsValue(ds) ==
    IF ds = <<>> THEN 0
    ELSE 10 * DigitsValue(SubSeq(ds, 1, Len(ds) - 1)) + DigitVal(ds[Len(ds)])

\* int(s), for an s it accepts.
IntOf(s) ==
    LET t == Strip(s)
    IN IF t[1] = "-" THEN 0 - DigitsValue(Unsigned(s)) ELSE DigitsValue(Unsigned(s))

RECURSIVE NatStr(_)
NatStr(n) ==
    IF n < 10 THEN <<DigitChars[n + 1]>>
    ELSE Append(NatStr(n \div 10), DigitChars[(n % 10) + 1])

\* str(n) of an int.
StrOf(n) == IF n < 0 THEN <<"-">> \o NatStr(0 - n) ELSE NatStr(n)

(***************************************************************************)
(* qb_gateway.py: the session and the reply.                               *)
(***************************************************************************)
None == [none |-> TRUE]

Return(value) == [kind |-> "return", value |-> value]

Raise(exc, msg) == [kind |-> "raise", exc |-> exc, msg |-> msg]

\* What the COM layer does to one request: whether pywin32 is there,
\* whether OpenConnection2, BeginSession, EndSession and CloseConnection
\* succeed, and whether ProcessRequest raises, answers without any status,
\* or answers with the reply of the external system.  A step that is not
\* reached has no outcome of its own (it is listed as succeeding).
SessionEnvs ==
    {e \in [win32 : BOOLEAN, open : BOOLEAN, begin : BOOLEAN,
            process : {"raise", "nostatus", "reply"}, end : BOOLEAN,
            close : BOOLEAN] :
        /\ ~e.win32 => e.open
        /\ ~e.open => e.begin
        /\ ~(e.win32 /\ e.open /\ e.begin)
              => e.process = "reply" /\ e.end /\ e.close}

\* The outcomes within a process: pywin32 is there for all of its calls or
\* for none.
EnvsOf(w) == {e \in SessionEnvs : e.win32 = w}

\* The environment of a call that never reaches _send_qbxml.
NoEnv == [win32 |-> TRUE, open |-> TRUE, begin |-> TRUE, process |-> "reply",
          end |-> TRUE, close |-> TRUE]

\* _qb_session and the ProcessRequest of _send_qbxml: the exception or the
\* kind of raw response, and what became of the connection and the session.
QbSession(env) ==
    IF ~env.win32 THEN
        [exc |-> "RuntimeError", msg |-> "pywin32 is required", raw |-> "none",
         opened |-> FALSE, begun |-> FALSE, sent |-> FALSE,
         conn_open |-> FALSE, sess_open |-> FALSE]
    ELSE IF ~env.open THEN
        [exc |-> "com_error", msg |-> "OpenConnection2", raw |-> "none",
         opened |-> FALSE, begun |-> FALSE, sent |-> FALSE,
         conn_open |-> FALSE, sess_open |-> FALSE]
    ELSE IF ~env.begin THEN
        \* BeginSession is called before the try: nothing closes the connection
        [exc |-> "com_error", msg |-> "BeginSession", raw |-> "none",
         opened |-> TRUE, begun |-> FALSE, sent |-> FALSE,
         conn_open |-> TRUE, sess_open |-> FALSE]
    ELSE
        [exc |-> IF ~env.close \/ ~env.end \/ env.process = "raise"
                 THEN "com_error" ELSE "none",
         msg |-> IF ~env.close THEN "CloseConnection"
                 ELSE IF ~env.end THEN "EndSession"
                 ELSE IF env.process = "raise" THEN "ProcessRequest" ELSE "",
         raw |-> IF ~env.close \/ ~env.end \/ env.process = "raise"
                 THEN "none" ELSE env.process,
         opened |-> TRUE, begun |-> TRUE, sent |-> TRUE,
         conn_open |-> ~env.close, sess_open |-> ~env.end]

\* The status codes of a reply element: 0 success, 1 no matching object,
\* 3100 name already in use.
StatusCodes == {0, 1, 3100}

StatusMessage(code) ==
    IF code = 0 THEN "Status OK"
    ELSE IF code = 1 THEN "no matching object"
    ELSE "name already in use"

\* One element of a reply: its status and the AccountRet records it holds.
Rs(code, rets) == [statusCode |-> code, statusMessage |-> StatusMessage(code),
                   rets |-> rets]

\* _parse_response on a response, the tuple of its elements that carry a
\* statusCode: the status of the first of them decides, and a response with
\* none is refused.
ParseResponse(raw) ==
    IF raw = <<>>
    THEN Raise("RuntimeError", "QuickBooks response missing status information")
    ELSE IF raw[1].statusCode # 0 /\ raw[1].statusCode # 1
         THEN Raise("RuntimeError", raw[1].statusMessage)
         ELSE Return(raw)

\* root.findall(".//AccountRet"): the records of all elements, in order.
RECURSIVE AccountRets(_)
AccountRets(raw) ==
    IF raw = <<>> THEN <<>> ELSE raw[1].rets \o AccountRets(Tail(raw))

\* _send_qbxml: the session, then _parse_response outside it.
SendQbxml(env, reply) ==
    LET s == QbSession(env)
    IN IF s.exc # "none" THEN Raise(s.exc, s.msg)
       ELSE ParseResponse(IF s.raw = "reply" THEN reply ELSE <<>>)

\* The external system processed the request (ProcessRequest answered).
Processed(env) == QbSession(env).sent /\ env.process = "reply"

\* What a call leaves in gw_log: what became of the connection and the
\* session, the response ProcessRequest gave and what _send_qbxml made of it,
\* and the records the external system created.
Log(env, reply, created) ==
    LET s == QbSession(env)
    IN [opened |-> s.opened, begun |-> s.begun, sent |-> s.sent,
        response |-> s.raw, reply |-> reply, parsed |-> SendQbxml(env, reply),
        conn_open |-> s.conn_open, sess_open |-> s.sess_open,
        end_raised |-> s.begun /\ ~env.end,
        close_raised |-> s.begun /\ ~env.close,
        replied |-> s.sent /\ env.process = "reply", created |-> created]

NoSessionLog ==
    [opened |-> FALSE, begun |-> FALSE, sent |-> FALSE, conn_open |-> FALSE,
     sess_open |-> FALSE, end_raised |-> FALSE, close_raised |-> FALSE,
     response |-> "none", reply |-> <<>>, parsed |-> None,
     replied |-> FALSE, created |-> <<>>]

(***************************************************************************)
(* qb_gateway.py: fetch_accounts, add_accounts_batch, add_account.         *)
(***************************************************************************)
AccountRet(Desc, Name, AccountNumber, AccountType) ==
    [Desc |-> Desc, Name |-> Name, AccountNumber |-> AccountNumber,
     AccountType |-> AccountType]

\* id = str(int(id)), or id.strip() when int raises ValueError.
NormalizeId(desc) == IF IsIntLiteral(desc) THEN StrOf(IntOf(desc)) ELSE Strip(desc)

\* The loop of fetch_accounts over the AccountRet records.
RECURSIVE FetchedAccounts(_)
FetchedAccounts(rets) ==
    IF rets = <<>> THEN <<>>
    ELSE LET r == rets[1]
         IN IF r.Desc = <<>> \/ NormalizeId(r.Desc) = <<>>
            THEN FetchedAccounts(Tail(rets))
            ELSE <<Account(r.AccountType, r.AccountNumber, r.Name,
                           NormalizeId(r.Desc), "quickbooks")>>
                 \o FetchedAccounts(Tail(rets))

\* The replies the external system may give to AccountQueryRq: its records
\* with status 0, status 1 when it holds none, or an error status.
QueryReplies(store) ==
    {<<Rs(3100, <<>>)>>}
        \cup (IF store = <<>> THEN {<<Rs(1, <<>>)>>} ELSE {<<Rs(0, store)>>})

\* fetch_accounts: exceptions of _send_qbxml propagate.
FetchAccounts(env, reply) ==
    LET sent == SendQbxml(env, reply)
    IN IF sent.kind = "raise" THEN sent
       ELSE Return(FetchedAccounts(AccountRets(sent.value)))

\* The place of the first term whose id int() rejects, 0 when there is none.
FirstInvalid(terms) ==
    IF \A i \in DOMAIN terms : IsIntLiteral(terms[i].id) THEN 0
    ELSE CHOOSE i \in DOMAIN terms :
            /\ ~IsIntLiteral(terms[i].id)
            /\ \A j \in DOMAIN terms : j < i => IsIntLiteral(terms[j].id)

\* The AccountAdd of one term: Desc is the decimal form of int(term.id).
AccountAdd(term) ==
    AccountRet(StrOf(IntOf(term.id)), term.name, term.number, term.AccountType)

\* A gateway that sends each term's request as soon as it is built, up to
\* the first term int() rejects.
RequestsSentAsBuilt(terms) ==
    LET n == IF FirstInvalid(terms) = 0 THEN Len(terms) ELSE FirstInvalid(terms) - 1
    IN [i \in 1..n |-> AccountAdd(terms[i])]

\* The requests list add_accounts_batch sends: one AccountAddRq per term,
\* and nothing at all when the loop that builds it raises ValueError.
Requests(terms) ==
    IF FirstInvalid(terms) # 0 THEN <<>>
    ELSE [i \in DOMAIN terms |-> AccountAdd(terms[i])]

\* The replies of the external system to a batch sent with
\* onError="continueOnError": one element per request, each with its own
\* status; a request that succeeded is created and echoed as AccountRet.
BatchReplies(requests) ==
    {[i \in DOMAIN requests |->
        Rs(codes[i], IF codes[i] = 0 THEN <<requests[i]>> ELSE <<>>)] :
        codes \in [DOMAIN requests -> {0, 3100}]}

\* The replies that reach the caller's environment: the external system
\* answers only a request that ProcessRequest delivered.
RepliesTo(env, replies) == IF Processed(env) THEN replies ELSE {<<>>}

\* The two sides of the merge conflict left in add_accounts_batch: HEAD
\* builds Account(id, name, number, AccountType, source), the other side
\* passes acc_number and acc_type, which Account does not take.
MergeSides == {"HEAD", "theirs"}

\* The loop of add_accounts_batch over the AccountRet records of the reply.
RECURSIVE AddedAccounts(_)
AddedAccounts(rets) ==
    IF rets = <<>> THEN <<>>
    ELSE LET r == rets[1]
         IN IF r.Desc = <<>> THEN AddedAccounts(Tail(rets))
            ELSE <<Account(r.AccountType, r.AccountNumber, r.Name,
                           NormalizeId(r.Desc), "quickbooks")>>
                 \o AddedAccounts(Tail(rets))

\* add_accounts_batch on its terms: what it returns or raises.
AddAccountsBatch(terms, env, reply, side) ==
    IF terms = <<>> THEN Return(<<>>)
    ELSE IF FirstInvalid(terms) # 0
    THEN Raise("ValueError", "id must be numeric for QuickBooks account terms")
    ELSE LET sent == SendQbxml(env, reply)
         IN IF sent.kind = "raise"
            THEN IF sent.exc = "RuntimeError" THEN Return(<<>>) ELSE sent
            ELSE IF side = "theirs" /\ AddedAccounts(AccountRets(sent.value)) # <<>>
                 THEN Raise("TypeError", "unexpected keyword argument 'acc_number'")
                 ELSE Return(AddedAccounts(AccountRets(sent.value)))

\* The replies to the single AccountAddRq of add_account.
AddReplies(request) ==
    {<<Rs(0, <<request>>)>>, <<Rs(0, <<>>)>>, <<Rs(3100, <<>>)>>}

\* add_account on its term: what it returns or raises.
AddAccount(term, env, reply) ==
    IF ~IsIntLiteral(term.id)
    THEN Raise("ValueError", "id must be numeric for QuickBooks account")
    ELSE LET sent == SendQbxml(env, reply)
             echo == Account(term.AccountType, term.number, term.name, term.id,
                             "quickbooks")
         IN IF sent.kind = "raise"
            THEN IF sent.exc = "RuntimeError" /\ sent.msg = "name already in use"
                 THEN Return(echo) ELSE sent
            ELSE IF AccountRets(sent.value) = <<>> THEN Return(echo)
                 \* Account(id=..., acc_type=..., acc_number=...) is no
                 \* signature of Account
                 ELSE Raise("TypeError", "unexpected keyword argument 'acc_type'")

\* The records a reply says were created.
Created(reply) == AccountRets(reply)

\* The terms the gateway is called with.
GwIds == {<<"1">>, <<"0", "2">>, <<"3", "0", ".", "0">>}

GwTerms == {Account("EXPENSE", "1000", "Expense", i, "excel") : i \in GwIds}

\* The Desc values an account of the company file may carry.
StoreDescs == {<<"1">>, <<" ", "2">>, <<" ">>}

StoreRets == {AccountRet(d, "Expense", "1000", "EXPENSE") : d \in StoreDescs}

fetch_accounts ==
    /\ gw_calls < MaxCalls
    /\ \E env \in EnvsOf(win32com) :
       \E reply \in RepliesTo(env, QueryReplies(qb_store)) :
          /\ gw_result' = FetchAccounts(env, reply)
          /\ gw_log' = Log(env, reply, <<>>)
    /\ gw_op' = "fetch_accounts"
    /\ gw_args' = <<>>
    /\ gw_calls' = gw_calls + 1
    /\ UNCHANGED <<qb_store, build, win32com, cmp_vars, run_vars, xl_vars, cli_vars>>

add_accounts_batch ==
    /\ gw_calls < MaxCalls
    /\ \E k \in 0..MaxBatch : \E terms \in [1..k -> GwTerms] :
          /\ gw_args' = terms
          /\ IF Requests(terms) # <<>>
             THEN \E env \in EnvsOf(win32com) :
                  \E reply \in RepliesTo(env, BatchReplies(Requests(terms))) :
                     /\ gw_result' = AddAccountsBatch(terms, env, reply, build)
                     /\ gw_log' = Log(env, reply, Created(reply))
                     /\ qb_store' = qb_store \o Created(reply)
             ELSE /\ gw_result' = AddAccountsBatch(terms, NoEnv, <<>>, build)
                  /\ gw_log' = NoSessionLog
                  /\ qb_store' = qb_store
    /\ gw_op' = "add_accounts_batch"
    /\ gw_calls' = gw_calls + 1
    /\ UNCHANGED <<build, win32com, cmp_vars, run_vars, xl_vars, cli_vars>>

add_account ==
    /\ gw_calls < MaxCalls
    /\ \E term \in GwTerms :
          /\ gw_args' = <<term>>
          /\ IF IsIntLiteral(term.id)
             THEN \E env \in EnvsOf(win32com) :
                  \E reply \in RepliesTo(env, AddReplies(AccountAdd(term))) :
                     /\ gw_result' = AddAccount(term, env, reply)
                     /\ gw_log' = Log(env, reply, Created(reply))
                     /\ qb_store' = qb_store \o Created(reply)
             ELSE /\ gw_result' = AddAccount(term, NoEnv, <<>>)
                  /\ gw_log' = NoSessionLog
                  /\ qb_store' = qb_store
    /\ gw_op' = "add_account"
    /\ gw_calls' = gw_calls + 1
    /\ UNCHANGED <<build, win32com, cmp_vars, run_vars, xl_vars, cli_vars>>

CmpIdle ==
    /\ excel_terms = <<>>
    /\ qb_terms = <<>>
    /\ report = NoReport
    /\ cmp_pc = "idle"

GwIdle ==
    /\ gw_op = "none"
    /\ gw_args = <<>>
    /\ gw_result = None
    /\ gw_log = NoSessionLog
    /\ gw_calls = 0

(***************************************************************************)
(* excel_reader.py: extract_account.  A cell holds None, a str, an int or  *)
(* a float (one decimal place is kept of a float).                         *)
(***************************************************************************)
NoneCell == [kind |-> "none"]

StrCell(chars) == [kind |-> "str", chars |-> chars]

IntCell(n) == [kind |-> "int", int |-> n]

FloatCell(n, tenths) == [kind |-> "float", int |-> n, tenths |-> tenths]

\* str(value): a float keeps its fractional part, 30.0 gives "30.0".
PyStr(cell) ==
    IF cell.kind = "str" THEN cell.chars
    ELSE IF cell.kind = "int" THEN StrOf(cell.int)
    ELSE IF cell.kind = "float"
         THEN StrOf(cell.int) \o <<".">> \o NatStr(cell.tenths)
         ELSE <<"N", "o", "n", "e">>

\* header_index = {header: idx for idx, header in enumerate(headers)}.
RECURSIVE HeaderIndex(_)
HeaderIndex(headers) ==
    IF headers = <<>> THEN <<>>
    ELSE LET n == Len(headers)
         IN DictPut(HeaderIndex(SubSeq(headers, 1, n - 1)), headers[n], n - 1)

\* _value(row, column_name).
Value(row, header_index, column_name) ==
    IF column_name \notin Keys(header_index) THEN NoneCell
    ELSE IF Lookup(header_index, column_name) >= Len(row) THEN NoneCell
    ELSE row[Lookup(header_index, column_name) + 1]

\* value in (None, "").
IsBlank(cell) == cell = NoneCell \/ cell = StrCell(<<>>)

\* The body of the loop over the data rows: the Account a row yields, or
\* nothing when the row is skipped.
RowTerm(row, header_index) ==
    LET raw_id == Value(row, header_index, "ID")
        num == Value(row, header_index, "Number")
        name == Value(row, header_index, "Name")
        type == Value(row, header_index, "Type")
    IN IF name = NoneCell \/ Strip(PyStr(name)) = <<>> THEN <<>>
       ELSE IF type = NoneCell \/ Strip(PyStr(type)) = <<>> THEN <<>>
       ELSE IF IsBlank(raw_id) \/ IsBlank(num) THEN <<>>
       ELSE IF Strip(PyStr(raw_id)) = <<>> \/ Strip(PyStr(num)) = <<>> THEN <<>>
       ELSE <<Account(Strip(PyStr(type)), Strip(PyStr(num)), Strip(PyStr(name)),
                      Strip(PyStr(raw_id)), "excel")>>

RECURSIVE RowTerms(_, _)
RowTerms(rows, header_index) ==
    IF rows = <<>> THEN <<>>
    ELSE RowTerm(rows[1], header_index) \o RowTerms(Tail(rows), header_index)

\* An importer that takes a workbook without the worksheet for an empty one.
ExtractAccountSheetOptional(wb) ==
    IF ~wb.exists THEN Raise("FileNotFoundError", "Workbook not found")
    ELSE IF ~wb.has_sheet \/ wb.table = <<>> THEN Return(<<>>)
    ELSE Return(RowTerms(Tail(wb.table), HeaderIndex(wb.table[1])))

\* extract_account on the workbook at workbook_path: what it returns or
\* raises.  table is what sheet.iter_rows yields, the header row first.
ExtractAccount(wb) ==
    IF ~wb.exists THEN Raise("FileNotFoundError", "Workbook not found")
    ELSE IF ~wb.has_sheet
    THEN Raise("ValueError", "Worksheet 'chartofaccount' not found in workbook")
    ELSE IF wb.table = <<>> THEN Return(<<>>)
    ELSE Return(RowTerms(Tail(wb.table), HeaderIndex(wb.table[1])))

\* The cells a column of the worksheet may hold.
IdCells ==
    {NoneCell, StrCell(<<>>), IntCell(30), FloatCell(30, 0),
     StrCell(<<"0", "3", "0">>), StrCell(<<" ", "7">>)}

NumberCells == {NoneCell, IntCell(1000)}

NameCells == {NoneCell, StrCell(<<" ">>), StrCell(<<"A">>)}

TypeCells == {NoneCell, StrCell(<<"E">>)}

\* The header rows: all four columns, or the worksheet lacks the ID column.
HeaderRows == {<<"ID", "Number", "Name", "Type">>, <<"Name", "Type", "Number">>}

\* The data rows under a header row.
DataRows(headers) ==
    {[i \in DOMAIN headers |->
        IF headers[i] = "ID" THEN id
        ELSE IF headers[i] = "Number" THEN num
        ELSE IF headers[i] = "Name" THEN name ELSE type] :
        id \in IdCells, num \in NumberCells, name \in NameCells, type \in TypeCells}

\* The workbook at workbook_path: whether the file exists, whether it holds
\* the worksheet, and the rows of the worksheet.
Workbook(exists, has_sheet, table) ==
    [exists |-> exists, has_sheet |-> has_sheet, table |-> table]

extract_account ==
    /\ xl_pc = "input"
    /\ xl_result' = ExtractAccount(workbook)
    /\ xl_pc' = "done"
    /\ UNCHANGED <<workbook, cli_vars, cmp_vars, gw_vars, run_vars>>

XlIdle ==
    /\ workbook = Workbook(FALSE, FALSE, <<>>)
    /\ xl_result = None
    /\ xl_pc = "idle"

(***************************************************************************)
(* runner.py: run_accounts.  The run is one sequential pipeline; each      *)
(* collaborator call is a step, and an exception raised inside the try     *)
(* block takes the run to write_report.                                    *)
(***************************************************************************)
\* Python's None as a value of the report.
PyNone == "None"

\* report_payload as run_accounts first builds it.
InitialPayload ==
    [k \in {"status", "generated_at", "added_terms", "conflicts", "error"} |->
        IF k = "status" THEN "success"
        ELSE IF k = "generated_at" THEN "iso_timestamp"
        ELSE IF k = "error" THEN PyNone
        ELSE <<>>]

\* A handler that marks the run as failed and drops the cause.
OnExceptionStatusOnly(payload, msg) ==
    [payload EXCEPT !["status"] = "error"]

\* except Exception as exc: status and error of the payload.
OnException(payload, msg) ==
    [payload EXCEPT !["status"] = "error", !["error"] = msg]

\* The step that follows a step whose call raised.
AfterRaise(step) == "report"

\* The step that follows a step that completed.
AfterStep(step) ==
    IF step = "import" THEN "fetch"
    ELSE IF step = "fetch" THEN "compare"
    ELSE IF step = "compare" THEN "add"
    ELSE IF step = "add" THEN "payload"
    ELSE IF step = "payload" THEN "report"
    ELSE "done"

\* A step of the try block ends in an exception: the payload records it.
StepRaises(step, msg) ==
    /\ report_payload' = OnException(report_payload, msg)
    /\ run_pc' = AfterRaise(step)
    /\ run_steps' = Append(run_steps, step)

\* A step of the try block completes.
StepCompletes(step) ==
    /\ run_pc' = AfterStep(step)
    /\ run_steps' = Append(run_steps, step)

\* The records the importer hands to a run.
RunIds == {<<"1">>, <<"3", "0", ".", "0">>}

RunTerms == {Account(t, "1000", "Expense", i, "excel") :
                t \in AccountTypes, i \in RunIds}

\* The accounts of the company file when a run starts.
RunStoreRets == {AccountRet(d, n, "1000", "EXPENSE") :
                    d \in {<<"1">>, <<" ">>}, n \in Names}

\* The ways the importer fails: the workbook or the worksheet is missing.
ImportErrors ==
    {Raise("FileNotFoundError", "Workbook not found"),
     Raise("ValueError", "Worksheet 'chartofaccount' not found in workbook")}

\* excel_accounts = excel_reader.extract_accounts(Path(workbook_path)).
\* excel_reader.py defines extract_account: as the source stands the lookup
\* of the name raises AttributeError; with the name bound the importer is
\* called, and returns its records or raises.
run_import ==
    /\ run_pc = "import"
    /\ \/ /\ StepRaises("import", "module has no attribute 'extract_accounts'")
          /\ UNCHANGED <<excel_accounts, run_raised>>
       \/ \E e \in ImportErrors :
             /\ StepRaises("import", e.msg)
             /\ run_raised' = [step |-> "import", exc |-> e.exc, msg |-> e.msg]
             /\ UNCHANGED excel_accounts
       \/ \E k \in 0..MaxExcel : \E terms \in [1..k -> RunTerms] :
             /\ excel_accounts' = terms
             /\ StepCompletes("import")
             /\ UNCHANGED <<report_payload, run_raised>>
    /\ UNCHANGED <<qb_accounts, comparison, gateway_failed, written,
                   gw_vars, cmp_vars, xl_vars, cli_vars>>

\* qb_accounts = qb_gateway.fetch_accounts(company_file_path).
run_fetch ==
    /\ run_pc = "fetch"
    /\ \E env \in EnvsOf(win32com) :
       \E reply \in RepliesTo(env, QueryReplies(qb_store)) :
          LET res == FetchAccounts(env, reply)
          IN /\ gw_result' = res
             /\ gw_log' = Log(env, reply, <<>>)
             /\ IF res.kind = "raise"
                THEN /\ StepRaises("fetch", res.msg)
                     /\ run_raised' = [step |-> "fetch", exc |-> res.exc,
                                       msg |-> res.msg]
                     /\ gateway_failed' = [step |-> "fetch", msg |-> res.msg,
                                           escaped |-> TRUE]
                     /\ UNCHANGED qb_accounts
                ELSE /\ qb_accounts' = res.value
                     /\ StepCompletes("fetch")
                     /\ UNCHANGED <<report_payload, run_raised, gateway_failed>>
    /\ gw_op' = "fetch_accounts"
    /\ gw_args' = <<>>
    /\ gw_calls' = gw_calls + 1
    /\ UNCHANGED <<excel_accounts, comparison, written, qb_store, build, win32com,
                   cmp_vars, xl_vars, cli_vars>>

\* comparison = compare.compare_payment_terms(excel_accounts, qb_accounts).
\* compare.py defines compare_account_types: as the source stands the lookup
\* raises AttributeError; with the name bound the reconciler is called.
run_compare ==
    /\ run_pc = "compare"
    /\ \/ /\ StepRaises("compare", "module has no attribute 'compare_payment_terms'")
          /\ UNCHANGED comparison
       \/ \E r \in CompareResults(excel_accounts, qb_accounts) :
             /\ comparison' = r
             /\ StepCompletes("compare")
             /\ UNCHANGED report_payload
    /\ UNCHANGED <<excel_accounts, qb_accounts, run_raised, gateway_failed,
                   written, gw_vars, cmp_vars, xl_vars, cli_vars>>

\* add_accounts_batch failed inside _send_qbxml with a RuntimeError, which
\* it answers with an empty list.
BatchFailure(terms, env, reply) ==
    /\ Requests(terms) # <<>>
    /\ SendQbxml(env, reply).kind = "raise"
    /\ SendQbxml(env, reply).exc = "RuntimeError"

\* What run_add records of the gateway call.
AddStep(terms, env, reply, created, log) ==
    LET res == AddAccountsBatch(terms, env, reply, build)
    IN /\ gw_result' = res
       /\ gw_log' = log
       /\ qb_store' = qb_store \o created
       /\ IF res.kind = "raise"
          THEN /\ StepRaises("add", res.msg)
               /\ run_raised' = [step |-> "add", exc |-> res.exc, msg |-> res.msg]
               /\ gateway_failed' = [step |-> "add", msg |-> res.msg,
                                     escaped |-> TRUE]
          ELSE /\ StepCompletes("add")
               /\ gateway_failed' =
                     IF BatchFailure(terms, env, reply)
                     THEN [step |-> "add", msg |-> SendQbxml(env, reply).msg,
                           escaped |-> FALSE]
                     ELSE gateway_failed
               /\ UNCHANGED <<report_payload, run_raised>>

\* added_accounts = qb_gateway.add_accounts_batch(company_file_path,
\*                                                comparison.excel_only).
run_add ==
    /\ run_pc = "add"
    /\ LET terms == comparison.excel_only
       IN IF Requests(terms) # <<>>
          THEN \E env \in EnvsOf(win32com) :
               \E reply \in RepliesTo(env, BatchReplies(Requests(terms))) :
                  AddStep(terms, env, reply, Created(reply),
                          Log(env, reply, Created(reply)))
          ELSE AddStep(terms, NoEnv, <<>>, <<>>, NoSessionLog)
    /\ gw_op' = "add_accounts_batch"
    /\ gw_args' = comparison.excel_only
    /\ gw_calls' = gw_calls + 1
    /\ UNCHANGED <<excel_accounts, qb_accounts, comparison, written, build,
                   win32com, cmp_vars, xl_vars, cli_vars>>

\* _conflict_to_dict.
ConflictToDict(conflict) ==
    [record_id |-> conflict.id, excel_name |-> conflict.excel_name,
     qb_name |-> conflict.qb_name, reason |-> conflict.reason]

\* _missing_in_excel_conflict.
MissingInExcelConflict(account) ==
    [record_id |-> account.id, excel_name |-> PyNone, qb_name |-> account.name,
     reason |-> "missing_in_excel"]

\* The conflicts list of the payload: the conflicts, then the qb_only ones.
PayloadConflicts(c) ==
    [i \in DOMAIN c.conflicts |-> ConflictToDict(c.conflicts[i])]
        \o [i \in DOMAIN c.qb_only |-> MissingInExcelConflict(c.qb_only[i])]

\* The rest of the try block.  _account_to_dict reads account.type, which
\* Account does not have: a non-empty added_accounts raises AttributeError
\* before either key of the payload is assigned.
run_payload ==
    /\ run_pc = "payload"
    /\ IF gw_result.value # <<>>
       THEN StepRaises("payload", "'Account' object has no attribute 'type'")
       ELSE /\ report_payload' =
                  [k \in DOMAIN report_payload \cup {"added_accounts"} |->
                      IF k = "added_accounts" THEN <<>>
                      ELSE IF k = "conflicts" THEN PayloadConflicts(comparison)
                      ELSE report_payload[k]]
            /\ StepCompletes("payload")
    /\ UNCHANGED <<excel_accounts, qb_accounts, comparison, run_raised,
                   gateway_failed, written, gw_vars, cmp_vars, xl_vars, cli_vars>>

\* write_report(report_payload, report_path); return report_path.  The call
\* is outside the try block: an OSError of the file system leaves the run.
run_write ==
    /\ run_pc = "report"
    /\ \/ /\ written' = report_payload
          /\ run_pc' = "done"
       \/ /\ written' = written
          /\ run_pc' = "crashed"
    /\ run_steps' = Append(run_steps, "report")
    /\ UNCHANGED <<report_payload, excel_accounts, qb_accounts, comparison,
                   run_raised, gateway_failed, gw_vars, cmp_vars, xl_vars, cli_vars>>

\* main is not running.
CliIdle ==
    /\ argv = <<>>
    /\ cli_pc = "idle"
    /\ exit_code = <<>>
    /\ stdout = <<>>

RunIdle ==
    /\ run_pc = "idle"
    /\ report_payload = InitialPayload
    /\ excel_accounts = <<>>
    /\ qb_accounts = <<>>
    /\ comparison = NoReport
    /\ run_steps = <<>>
    /\ run_raised = None
    /\ gateway_failed = None
    /\ written = None

RunInit ==
    /\ run_pc = "import"
    /\ report_payload = InitialPayload
    /\ excel_accounts = <<>>
    /\ qb_accounts = <<>>
    /\ comparison = NoReport
    /\ run_steps = <<>>
    /\ run_raised = None
    /\ gateway_failed = None
    /\ written = None
    /\ \E k \in 0..MaxStore : qb_store \in [1..k -> RunStoreRets]
    /\ build \in MergeSides
    /\ win32com \in BOOLEAN
    /\ GwIdle
    /\ CmpIdle
    /\ XlIdle
    /\ CliIdle

RunNext ==
    run_import \/ run_fetch \/ run_compare \/ run_add \/ run_payload \/ run_write

SpecRun == RunInit /\ [][RunNext]_vars

(***************************************************************************)
(* cli.py: main, run as the process's entry point.                         *)
(***************************************************************************)
DEFAULT_REPORT_NAME == "chart_of_accounts_report.json"

\* The command lines: --workbook is required, --output is optional.
Argvs ==
    {<<>>,
     <<"--workbook", "company_data.xlsx">>,
     <<"--workbook", "company_data.xlsx", "--output", "out.json">>}

\* parser.parse_args(argv) accepts the command line.
Parses(args) == \E i \in DOMAIN args : args[i] = "--workbook" /\ i < Len(args)

\* args.output, PyNone when the option is not given.
OutputOf(args) ==
    IF \E i \in DOMAIN args : args[i] = "--output" /\ i < Len(args)
    THEN args[(CHOOSE i \in DOMAIN args : args[i] = "--output") + 1]
    ELSE PyNone

\* report_path = Path(output_path) if output_path else Path(DEFAULT_REPORT_NAME).
ReportPath(output_path) ==
    IF output_path # PyNone /\ output_path # "" THEN output_path
    ELSE DEFAULT_REPORT_NAME

\* print(f"Report written to {path}").
ReportLine(path) == <<"Report written to", path>>

\* The process starts: cli.py is imported, then main parses the command line
\* and calls the runner.  "from .runner import run_payment_terms" names
\* nothing runner.py defines (it defines run_accounts): as the source stands
\* the import raises ImportError and the process ends with a traceback; with
\* the name bound to the runner's entry point, parse_args exits with status
\* 2 on a command line without --workbook, and the run begins otherwise.
cli_start ==
    /\ cli_pc = "start"
    /\ \/ /\ cli_pc' = "exited"
          /\ exit_code' = <<1>>
          /\ run_pc' = run_pc
       \/ /\ ~Parses(argv)
          /\ cli_pc' = "exited"
          /\ exit_code' = <<2>>
          /\ run_pc' = run_pc
       \/ /\ Parses(argv)
          /\ cli_pc' = "running"
          /\ exit_code' = exit_code
          /\ run_pc' = "import"
    /\ UNCHANGED <<argv, stdout, report_payload, excel_accounts, qb_accounts,
                   comparison, run_steps, run_raised, gateway_failed, written,
                   cmp_vars, gw_vars, xl_vars>>

\* The runner came back: main prints the path it returned and returns 0.
\* An exception that left the runner leaves main as well, and the process
\* ends with status 1.
cli_finish ==
    /\ cli_pc = "running"
    /\ run_pc \in {"done", "crashed"}
    /\ IF run_pc = "done"
       THEN /\ stdout' = Append(stdout, ReportLine(ReportPath(OutputOf(argv))))
            /\ exit_code' = <<0>>
       ELSE /\ stdout' = stdout
            /\ exit_code' = <<1>>
    /\ cli_pc' = "exited"
    /\ UNCHANGED <<argv, run_vars, cmp_vars, gw_vars, xl_vars>>

CliInit ==
    /\ argv \in Argvs
    /\ cli_pc = "start"
    /\ exit_code = <<>>
    /\ stdout = <<>>
    /\ RunIdle
    /\ \E k \in 0..MaxStore : qb_store \in [1..k -> RunStoreRets]
    /\ build \in MergeSides
    /\ win32com \in BOOLEAN
    /\ GwIdle
    /\ CmpIdle
    /\ XlIdle

CliNext == cli_start \/ RunNext \/ cli_finish

SpecCli == CliInit /\ [][CliNext]_vars

\* The workbooks: no file, a file without the worksheet, an empty worksheet,
\* or a worksheet of a header row and data rows.
XlInit ==
    /\ \/ workbook = Workbook(FALSE, FALSE, <<>>)
       \/ workbook = Workbook(TRUE, FALSE, <<>>)
       \/ workbook = Workbook(TRUE, TRUE, <<>>)
       \/ \E headers \in HeaderRows : \E k \in 0..MaxRows :
          \E rows \in [1..k -> DataRows(headers)] :
             workbook = Workbook(TRUE, TRUE, <<headers>> \o rows)
    /\ xl_result = None
    /\ xl_pc = "input"
    /\ qb_store = <<>>
    /\ build = "HEAD"
    /\ win32com = TRUE
    /\ GwIdle
    /\ CmpIdle
    /\ RunIdle
    /\ CliIdle

XlNext == extract_account

SpecImport == XlInit /\ [][XlNext]_vars


compare_account_types ==
    /\ cmp_pc = "input"
    /\ \E r \in CompareResults(excel_terms, qb_terms) : report' = r
    /\ cmp_pc' = "done"
    /\ UNCHANGED <<excel_terms, qb_terms>>
    /\ UNCHANGED <<gw_vars, run_vars, xl_vars, cli_vars>>

CmpInit ==
    /\ \E n \in 0..MaxRecords : \E k \in 0..n :
          /\ excel_terms \in [1..k -> AccountsOf("excel")]
          /\ qb_terms \in [1..(n - k) -> AccountsOf("quickbooks")]
    /\ report = NoReport
    /\ cmp_pc = "input"
    /\ qb_store = <<>>
    /\ build = "HEAD"
    /\ win32com = TRUE
    /\ GwIdle
    /\ RunIdle
    /\ XlIdle
    /\ CliIdle

CmpNext == compare_account_types

SpecCompare == CmpInit /\ [][CmpNext]_vars

\* The accounts of one source that carry the same number.
OneNumberAccounts(source) == {a \in AccountsOf(source) : a.number = "1000"}

\* Inputs large enough for two AccountTypes to be held by both sources.
PairsInit ==
    /\ \E k \in 0..MaxPerSide : excel_terms \in [1..k -> OneNumberAccounts("excel")]
    /\ \E k \in 0..MaxPerSide : qb_terms \in [1..k -> OneNumberAccounts("quickbooks")]
    /\ report = NoReport
    /\ cmp_pc = "input"
    /\ qb_store = <<>>
    /\ build = "HEAD"
    /\ win32com = TRUE
    /\ GwIdle
    /\ RunIdle
    /\ XlIdle
    /\ CliIdle

SpecComparePairs == PairsInit /\ [][CmpNext]_vars

GwInit ==
    /\ \E k \in 0..1 : qb_store \in [1..k -> StoreRets]
    /\ build \in MergeSides
    /\ win32com \in BOOLEAN
    /\ GwIdle
    /\ CmpIdle
    /\ RunIdle
    /\ XlIdle
    /\ CliIdle

GwNext == fetch_accounts \/ add_accounts_batch \/ add_account

SpecGateway == GwInit /\ [][GwNext]_vars

(***************************************************************************)
(* The reconciler's claims.  They are stated on the inputs themselves,     *)
(* not on the lookup tables the code builds.                               *)
(***************************************************************************)
Done == cmp_pc = "done"

IdsOf(s) == {s[i].id : i \in DOMAIN s}

TypesOf(s) == {s[i].AccountType : i \in DOMAIN s}

\* Each id occurs once in the input (the data model's invariant on a source).
UniqueIds(s) == \A i, j \in DOMAIN s : s[i].id = s[j].id => i = j

\* The record an input holds for an id: the last one carrying it.
LastWithId(s, id) ==
    s[CHOOSE i \in DOMAIN s :
        s[i].id = id /\ \A j \in DOMAIN s : j > i => s[j].id # id]

\* The last record of an input carrying an AccountType.
LastWithType(s, t) ==
    s[CHOOSE i \in DOMAIN s :
        s[i].AccountType = t /\ \A j \in DOMAIN s : j > i => s[j].AccountType # t]

\* The place where an AccountType first occurs in an input.
FirstPlace(s, t) ==
    CHOOSE i \in DOMAIN s :
        s[i].AccountType = t /\ \A j \in DOMAIN s : j < i => s[j].AccountType # t

SameFields(e, q) ==
    e.name = q.name /\ e.number = q.number /\ e.AccountType = q.AccountType

SharedIds == IdsOf(excel_terms) \cap IdsOf(qb_terms)

MatchedIds ==
    {id \in SharedIds : SameFields(LastWithId(excel_terms, id), LastWithId(qb_terms, id))}

MismatchedIds == SharedIds \ MatchedIds

ConflictsOf(id) == {j \in DOMAIN report.conflicts : report.conflicts[j].id = id}

\* C1: no id appears in more than one of excel_only, qb_only and conflicts.
C1_OutputIdsDisjoint ==
    Done =>
        /\ IdsOf(report.excel_only) \cap IdsOf(report.qb_only) = {}
        /\ IdsOf(report.excel_only) \cap IdsOf(report.conflicts) = {}
        /\ IdsOf(report.qb_only) \cap IdsOf(report.conflicts) = {}

\* C2: an id in both inputs whose two records differ in name, number or
\* AccountType gets exactly one Conflict, with reason field_mismatch, that
\* carries name, number and AccountType of both sides.
C2_OneFullConflictPerMismatch ==
    Done =>
        \A id \in MismatchedIds :
            /\ Cardinality(ConflictsOf(id)) = 1
            /\ \A j \in ConflictsOf(id) :
                LET c == report.conflicts[j]
                    e == LastWithId(excel_terms, id)
                    q == LastWithId(qb_terms, id)
                IN /\ c.reason = "field_mismatch"
                   /\ {"excel_name", "qb_name", "excel_number", "qb_number",
                       "excel_AccountType", "qb_AccountType"} \subseteq DOMAIN c
                   /\ c.excel_name = e.name /\ c.qb_name = q.name
                   /\ c.excel_number = e.number /\ c.qb_number = q.number
                   /\ c.excel_AccountType = e.AccountType
                   /\ c.qb_AccountType = q.AccountType

\* C3: an id in both inputs whose two records have the same name, number and
\* AccountType appears in none of excel_only, qb_only and conflicts.
C3_MatchedIdsAbsent ==
    Done =>
        \A id \in MatchedIds :
            /\ id \notin IdsOf(report.excel_only)
            /\ id \notin IdsOf(report.qb_only)
            /\ id \notin IdsOf(report.conflicts)

StandIns(s, other) ==
    LET ts == TypesOf(s) \ TypesOf(other)
    IN {o \in [1..Cardinality(ts) -> Range(s)] :
           /\ \A t \in ts : \E i \in DOMAIN o : o[i] = LastWithType(s, t)
           /\ \A i, j \in DOMAIN o :
                 i < j => FirstPlace(s, o[i].AccountType) < FirstPlace(s, o[j].AccountType)}

C5_EveryExcelIdCountedOnce ==
    Done =>
        Len(report.excel_only) + Cardinality(MatchedIds)
            + Cardinality(SharedIds \cap IdsOf(report.conflicts))
        = Cardinality(IdsOf(excel_terms))

\* C6: for inputs with no id in common (each id once per input), excel_only is
\* the Excel input, qb_only the QuickBooks input, and conflicts is empty.
C6_DisjointInputsPassThrough ==
    (Done /\ SharedIds = {} /\ UniqueIds(excel_terms) /\ UniqueIds(qb_terms)) =>
        /\ report.excel_only = excel_terms
        /\ report.qb_only = qb_terms
        /\ report.conflicts = <<>>

\* C16: of several records of one input with the same id only the last is
\* used: a record of excel_only or qb_only is the last record of its input
\* with its id, and a Conflict carries the names of the last records with
\* its id.
C16_OnlyLastRecordOfAnIdUsed ==
    Done =>
        /\ \A k \in DOMAIN report.excel_only :
              report.excel_only[k] = LastWithId(excel_terms, report.excel_only[k].id)
        /\ \A k \in DOMAIN report.qb_only :
              report.qb_only[k] = LastWithId(qb_terms, report.qb_only[k].id)
        /\ \A k \in DOMAIN report.conflicts :
              LET c == report.conflicts[k]
              IN /\ c.excel_name = LastWithId(excel_terms, c.id).name
                 /\ c.id \in IdsOf(qb_terms) =>
                       c.qb_name = LastWithId(qb_terms, c.id).name

\* C17: the conflicts are in the order of the keys of the Excel lookup table
\* (the order in which the keys first occur in the Excel input), so the
\* report is a function of the two inputs.
C17_ConflictsInPrimaryKeyOrder ==
    Done =>
        \A k, l \in DOMAIN report.conflicts :
            k < l => FirstPlace(excel_terms, report.conflicts[k].AccountType)
                        < FirstPlace(excel_terms, report.conflicts[l].AccountType)

(***************************************************************************)
(* The gateway's claims.                                                   *)
(***************************************************************************)
\* The Account of a record the external system created.
AccountOfCreated(r) ==
    Account(r.AccountType, r.AccountNumber, r.Name, r.Desc, "quickbooks")

\* The response of the external system reached add_accounts_batch:
\* ProcessRequest answered and the session was ended and closed.
ResponseReceived == gw_log.replied /\ ~gw_log.sess_open /\ ~gw_log.conn_open

\* C9: whenever add_accounts_batch got the external system's response to a
\* batch, it returns (it does not raise) exactly the records that were
\* created, so an empty list means that none was.  Stated for the HEAD side
\* of the merge conflict; the other side raises TypeError on the first
\* created record.
C9_ReturnsExactlyCreated ==
    (gw_op = "add_accounts_batch" /\ ResponseReceived /\ build = "HEAD") =>
        /\ gw_result.kind = "return"
        /\ gw_result.value =
              [i \in DOMAIN gw_log.created |-> AccountOfCreated(gw_log.created[i])]

\* The last call was given a record whose id is no integer literal.
InvalidIdPassed ==
    /\ gw_op \in {"add_accounts_batch", "add_account"}
    /\ \E i \in DOMAIN gw_args : ~IsIntLiteral(gw_args[i].id)

\* C10: a call of add_accounts_batch or add_account given a record whose id
\* is no integer literal raises ValueError, and it opens no connection,
\* begins no session, sends no request and creates no record.
C10_InvalidIdRejectedBeforeSubmission ==
    InvalidIdPassed =>
        /\ gw_result.kind = "raise"
        /\ gw_result.exc = "ValueError"
        /\ ~gw_log.opened
        /\ ~gw_log.begun
        /\ ~gw_log.sent
        /\ gw_log.created = <<>>

\* C10's case: a batch whose first record is valid and whose second is not
\* was rejected.
C10_Witness ==
    /\ gw_op = "add_accounts_batch"
    /\ Len(gw_args) = 2
    /\ IsIntLiteral(gw_args[1].id)
    /\ ~IsIntLiteral(gw_args[2].id)
    /\ gw_result.kind = "raise"

\* C15: after every gateway call, returned or raised, the connection it
\* opened is closed and the session it began is ended, whichever of
\* OpenConnection2, BeginSession, ProcessRequest and EndSession failed.  A
\* connection whose CloseConnection raised, and a session whose EndSession
\* raised, are not counted.
C15_NoConnectionOrSessionLeftOpen ==
    gw_op # "none" =>
        /\ ~gw_log.close_raised => ~gw_log.conn_open
        /\ ~gw_log.end_raised => ~gw_log.sess_open

\* The status codes that are no error: 0 and 1.
IsError(code) == code # 0 /\ code # 1

\* C18: whenever ProcessRequest answered, _send_qbxml raises RuntimeError
\* for a response without status information, raises RuntimeError with the
\* message of an element whose statusCode is neither 0 nor 1 when the reply
\* has such an element at any place, and returns the parsed reply otherwise;
\* fetch_accounts answers a reply of status 1 with an empty list.
C18_EveryElementStatusChecked ==
    (gw_op # "none" /\ gw_log.response # "none") =>
        IF gw_log.response = "nostatus"
        THEN gw_log.parsed.kind = "raise" /\ gw_log.parsed.exc = "RuntimeError"
        ELSE IF \E i \in DOMAIN gw_log.reply : IsError(gw_log.reply[i].statusCode)
        THEN /\ gw_log.parsed.kind = "raise"
             /\ gw_log.parsed.exc = "RuntimeError"
             /\ \E i \in DOMAIN gw_log.reply :
                   /\ IsError(gw_log.reply[i].statusCode)
                   /\ gw_log.parsed.msg = gw_log.reply[i].statusMessage
        ELSE /\ gw_log.parsed.kind = "return"
             /\ (gw_op = "fetch_accounts" /\ gw_log.reply[1].statusCode = 1) =>
                   gw_result = Return(<<>>)

(***************************************************************************)
(* The claims about a run.                                                 *)
(***************************************************************************)
RunEnded == run_pc \in {"done", "crashed"}

\* C7: every run ends with the report written and its path returned, and
\* the report says "error" with the cause exactly when a collaborator call
\* (import, fetch, reconcile, batch create) raised, "success" with no error
\* otherwise.
C7_ReportTellsWhetherACallRaised ==
    RunEnded =>
        /\ run_pc = "done"
        /\ written # None
        /\ IF run_raised # None
           THEN written["status"] = "error" /\ written["error"] = run_raised.msg
           ELSE written["status"] = "success" /\ written["error"] = PyNone

\* No step of the try block ran after the gateway operation that failed.
NoStepAfterFailure ==
    LET p == CHOOSE i \in DOMAIN run_steps : run_steps[i] = gateway_failed.step
    IN \A i \in DOMAIN run_steps : i > p => run_steps[i] = "report"

\* C8 as claimed: a failure of a gateway operation, a failure the external
\* system reports for the batch included, keeps every later step but the
\* report from running and is the error of the report, whose status is
\* "error".
C8_GatewayFailureAbortsAndIsReported ==
    gateway_failed # None =>
        /\ NoStepAfterFailure
        /\ run_pc = "done" =>
              /\ written["status"] = "error"
              /\ written["error"] = gateway_failed.msg

\* C8 as amended: a failure that leaves the gateway call as an exception
\* keeps every later step but the report from running and is the error of
\* the written report; a RuntimeError inside the batch's _send_qbxml is
\* answered by add_accounts_batch with an empty list, after which the run
\* goes on and the written report says "success" with no error.
C8_EscapedGatewayFailureAbortsAndIsReported ==
    gateway_failed # None =>
        IF gateway_failed.escaped
        THEN /\ NoStepAfterFailure
             /\ run_pc = "done" =>
                   /\ written["status"] = "error"
                   /\ written["error"] = gateway_failed.msg
        ELSE run_pc = "done" =>
                /\ run_steps = <<"import", "fetch", "compare", "add", "payload",
                                "report">>
                /\ written["status"] = "success"
                /\ written["error"] = PyNone

\* C8's case: add_accounts_batch raised in a run that had imported, fetched
\* and reconciled, and the report was written.
C8_Witness ==
    /\ run_pc = "done"
    /\ gateway_failed # None
    /\ gateway_failed.escaped
    /\ gateway_failed.step = "add"
    /\ run_steps = <<"import", "fetch", "compare", "add", "report">>
    /\ written["status"] = "error"

(***************************************************************************)
(* The claim about the command line.                                       *)
(***************************************************************************)
\* C11: a process started on a command line that parses ends with exit code
\* 0 after printing the report's location, whatever happened in the run.
C11_ExitsZeroAndPrintsReportLocation ==
    (cli_pc = "exited" /\ Parses(argv)) =>
        /\ exit_code = <<0>>
        /\ stdout = <<ReportLine(ReportPath(OutputOf(argv)))>>

(***************************************************************************)
(* The importer's claims.                                                  *)
(***************************************************************************)
Imported == xl_pc = "done"

IdCellOf(i) == Value(workbook.table[i + 1], HeaderIndex(workbook.table[1]), "ID")

\* The cell holds an integer: an int, a float without fractional part, or a
\* str that is an integer literal.
NumericLooking(cell) ==
    \/ cell.kind = "int"
    \/ cell.kind = "float" /\ cell.tenths = 0
    \/ cell.kind = "str" /\ IsIntLiteral(cell.chars)

\* The canonical decimal string of a numeric-looking cell.
CanonicalDecimal(cell) ==
    IF cell.kind = "str" THEN StrOf(IntOf(cell.chars)) ELSE StrOf(cell.int)

\* Every data row of the worksheet yielded a record.
AllRowsImported ==
    /\ Imported
    /\ xl_result.kind = "return"
    /\ workbook.table # <<>>
    /\ Len(xl_result.value) = Len(workbook.table) - 1

\* C13: the id the importer gives a row is the canonical decimal string of a
\* numeric-looking ID cell, and it is the id the gateway derives from the
\* same identifier text.
C13_ImporterAndGatewayNormalizeAlike ==
    AllRowsImported =>
        \A i \in DOMAIN xl_result.value :
            /\ NumericLooking(IdCellOf(i)) =>
                  xl_result.value[i].id = CanonicalDecimal(IdCellOf(i))
            /\ xl_result.value[i].id = NormalizeId(PyStr(IdCellOf(i)))

(***************************************************************************)
(* The claim about the report of a failed run.                             *)
(***************************************************************************)
\* The entry of the report for a created record.
CreatedEntry(account) ==
    [id |-> account.id, name |-> account.name, type |-> account.AccountType,
     number |-> account.number, source |-> account.source]

\* The created-records lists of a written report.
CreatedListed ==
    UNION {Range(written[k]) : k \in {"added_accounts", "added_terms"} \cap DOMAIN written}

\* C14: the report of a failed run lists every record add_accounts_batch
\* returned as created, and holds the conflicts of the comparison when the
\* comparison was made.
C14_FailedRunReportsWhatWasComputed ==
    (run_pc = "done" /\ written["status"] = "error") =>
        /\ (gw_op = "add_accounts_batch" /\ gw_result.kind = "return") =>
              \A i \in DOMAIN gw_result.value :
                  CreatedEntry(gw_result.value[i]) \in CreatedListed
        /\ comparison # NoReport =>
              written["conflicts"] = PayloadConflicts(comparison)

====
